---- MODULE Spec2Model ----
(***************************************************************************)
(* Partial Digest reconstruction (src/partial_digest.py).                  *)
(*                                                                         *)
(* partial_digest(fragment_lengths) derives the width, filters it out of   *)
(* the input, seeds a LIFO frontier with (counts, [0, width]) and runs the *)
(* loop of find_solution.  One action models one entry into/exit from a    *)
(* function or one whole iteration of the `while stack` loop.              *)
(***************************************************************************)
EXTENDS Integers, Sequences, FiniteSets, TLC

\* Largest distance value an input may hold.
MaxVal == 4
\* Largest number of distances in an input.
MaxLen == 6

VARIABLES
    fragment_lengths,  \* the caller's argument of partial_digest
    pc,                \* "call" | "loop" | "done"
    width,             \* local of partial_digest; 0 while not derived
    stack,             \* the deque of find_solution, last element = top
    curr_counts,       \* loop local: counts of the entry popped last
    curr_points,       \* loop local: points of the entry popped last
    result,            \* return value of partial_digest
    starter,           \* the list partial_digest passes as `points`
    arg_dist_to_remove,  \* dist_to_remove of a direct call of can_remove_distances
    arg_dist_counts,     \* dist_counts of that call, as the call leaves it
    crd_ret            \* "idle" | "pending" | "True" | "False"

\* the state of a run of partial_digest
runvars == <<fragment_lengths, pc, width, stack, curr_counts, curr_points,
             result, starter>>

\* the state of a direct call of can_remove_distances
crdvars == <<arg_dist_to_remove, arg_dist_counts, crd_ret>>

vars == <<runvars, crdvars>>

----------------------------------------------------------------------------
\* Python values

\* None, as a return value
None == [none |-> TRUE, points |-> <<>>]
\* a returned list
Some(pts) == [none |-> FALSE, points |-> pts]

\* the empty dict {}
EmptyDict == [k \in {} |-> 0]

Abs(x) == IF x < 0 THEN -x ELSE x

Range(s) == {s[i] : i \in DOMAIN s}

\* variant: the last element is taken for the maximum
MaxOfSeq_last(s) == s[Len(s)]

\* max(list) of a non-empty list
RECURSIVE MaxOfSeq(_)
MaxOfSeq(s) ==
    IF Len(s) = 1 THEN s[1]
    ELSE LET m == MaxOfSeq(Tail(s)) IN IF s[1] > m THEN s[1] ELSE m

\* max(dict.keys()) of a non-empty dict
MaxKey(counts) == CHOOSE k \in DOMAIN counts : \A j \in DOMAIN counts : j <= k

\* sum(dict.values())
RECURSIVE SumOver(_, _)
SumOver(counts, keys) ==
    IF keys = {} THEN 0
    ELSE LET k == CHOOSE x \in keys : TRUE
         IN counts[k] + SumOver(counts, keys \ {k})

SumValues(counts) == SumOver(counts, DOMAIN counts)

\* insertion of x into an ascending list
RECURSIVE InsertSorted(_, _)
InsertSorted(x, s) ==
    IF s = <<>> THEN <<x>>
    ELSE IF x <= s[1] THEN <<x>> \o s
    ELSE <<s[1]>> \o InsertSorted(x, Tail(s))

\* sorted(list): ascending, duplicates kept
RECURSIVE sorted(_)
sorted(s) == IF s = <<>> THEN <<>> ELSE InsertSorted(s[1], sorted(Tail(s)))

----------------------------------------------------------------------------
\* Helpers of the module, in source order

\* variant: signed differences, abs() left out
calculate_distances_signed(pt, points) ==
    [i \in 1..Len(points) |-> points[i] - pt]

calculate_distances(pt, points) ==
    [i \in 1..Len(points) |-> Abs(points[i] - pt)]

\* the for loop of can_remove_distances over the private copy temp_counts
RECURSIVE CanRemoveLoop(_, _)
CanRemoveLoop(dist_to_remove, temp_counts) ==
    IF dist_to_remove = <<>> THEN TRUE
    ELSE LET dist == dist_to_remove[1] IN
         IF dist \notin DOMAIN temp_counts \/ temp_counts[dist] <= 0
         THEN FALSE
         ELSE CanRemoveLoop(Tail(dist_to_remove),
                            [temp_counts EXCEPT ![dist] = @ - 1])

\* variant: a distance of zero is passed over instead of being looked up
RECURSIVE CanRemoveLoop_skipzero(_, _)
CanRemoveLoop_skipzero(dist_to_remove, temp_counts) ==
    IF dist_to_remove = <<>> THEN TRUE
    ELSE LET dist == dist_to_remove[1] IN
         IF dist = 0 THEN CanRemoveLoop_skipzero(Tail(dist_to_remove), temp_counts)
         ELSE IF dist \notin DOMAIN temp_counts \/ temp_counts[dist] <= 0
         THEN FALSE
         ELSE CanRemoveLoop_skipzero(Tail(dist_to_remove),
                                     [temp_counts EXCEPT ![dist] = @ - 1])

can_remove_distances_skipzero(dist_to_remove, dist_counts) ==
    CanRemoveLoop_skipzero(dist_to_remove, dist_counts)

\* variant: the exhausted count is tested with < 0 instead of <= 0
RECURSIVE CanRemoveLoop_lt(_, _)
CanRemoveLoop_lt(dist_to_remove, temp_counts) ==
    IF dist_to_remove = <<>> THEN TRUE
    ELSE LET dist == dist_to_remove[1] IN
         IF dist \notin DOMAIN temp_counts \/ temp_counts[dist] < 0
         THEN FALSE
         ELSE CanRemoveLoop_lt(Tail(dist_to_remove),
                               [temp_counts EXCEPT ![dist] = @ - 1])

can_remove_distances_lt(dist_to_remove, dist_counts) ==
    CanRemoveLoop_lt(dist_to_remove, dist_counts)

\* variant: temp_counts is never decremented, repeats in the batch go unseen
can_remove_distances_norepeat(dist_to_remove, dist_counts) ==
    \A i \in DOMAIN dist_to_remove :
        /\ dist_to_remove[i] \in DOMAIN dist_counts
        /\ dist_counts[dist_to_remove[i]] > 0

can_remove_distances(dist_to_remove, dist_counts) ==
    CanRemoveLoop(dist_to_remove, dist_counts)

\* temp_counts at the return of can_remove_distances
RECURSIVE CanRemoveTemp(_, _)
CanRemoveTemp(dist_to_remove, temp_counts) ==
    IF dist_to_remove = <<>> THEN temp_counts
    ELSE LET dist == dist_to_remove[1] IN
         IF dist \notin DOMAIN temp_counts \/ temp_counts[dist] <= 0
         THEN temp_counts
         ELSE CanRemoveTemp(Tail(dist_to_remove),
                            [temp_counts EXCEPT ![dist] = @ - 1])

\* variant: temp_counts = dist_counts, the loop works on the caller's dict
CountsAfterCanRemove_alias(batch, counts) == CanRemoveTemp(batch, counts)

\* the caller's dict after can_remove_distances: temp_counts is a copy
CountsAfterCanRemove(batch, counts) == counts

\* one pass of the counting loop: counts[dist] += 1 or counts[dist] = 1
CountOne(counts, dist) ==
    IF dist \in DOMAIN counts
    THEN [counts EXCEPT ![dist] = @ + 1]
    ELSE [k \in DOMAIN counts \cup {dist} |->
            IF k = dist THEN 1 ELSE counts[k]]

RECURSIVE CountLoop(_, _)
CountLoop(distances, counts) ==
    IF distances = <<>> THEN counts
    ELSE CountLoop(Tail(distances), CountOne(counts, distances[1]))

create_distance_counts(distances) == CountLoop(distances, EmptyDict)

\* variant: for dist in set(distancesN), one decrement per distinct distance
DecrementLoop_distinct(batch, new_counts) ==
    [k \in DOMAIN new_counts |->
        IF k \in Range(batch) THEN new_counts[k] - 1 ELSE new_counts[k]]

\* for dist in distancesN: new_counts[dist] -= 1
RECURSIVE DecrementLoop(_, _)
DecrementLoop(batch, new_counts) ==
    IF batch = <<>> THEN new_counts
    ELSE DecrementLoop(Tail(batch), [new_counts EXCEPT ![batch[1]] = @ - 1])

\* variant: the zero counts are not filtered out
FilterPositive_keep(new_counts) == new_counts

\* {k: v for k, v in new_counts.items() if v > 0}
FilterPositive(new_counts) ==
    [k \in {j \in DOMAIN new_counts : new_counts[j] > 0} |-> new_counts[k]]

\* variant: the decrements are lost, the child keeps the parent's counts
NewCounts_unchanged(batch, counts) == FilterPositive(counts)

\* the new_counts of a candidate: copy, decrement, filter
NewCounts(batch, counts) ==
    FilterPositive(DecrementLoop(batch, counts))

Candidate1(max_dist, w) == max_dist

\* variant: the mirror image is not taken
Candidate2_unmirrored(max_dist, w) == max_dist

Candidate2(max_dist, w) == w - max_dist

\* the block that processes one candidate: the entries it appends to the stack
ProcessCandidate(candidate, counts, points) ==
    LET distances == calculate_distances(candidate, points) IN
    IF can_remove_distances(distances, counts)
    THEN IF candidate \notin Range(points)
         THEN << [counts |-> NewCounts(distances, counts),
                  points |-> Append(points, candidate)] >>
         ELSE <<>>
    ELSE <<>>

\* variant: new_counts = curr_counts, the decrements hit the popped entry
CountsAfterBlock_alias(candidate, counts, points) ==
    IF can_remove_distances(calculate_distances(candidate, points), counts)
    THEN DecrementLoop(calculate_distances(candidate, points), counts)
    ELSE counts

\* curr_counts after a candidate block: the guard and new_counts use copies
CountsAfterBlock(candidate, counts, points) ==
    CountsAfterCanRemove(calculate_distances(candidate, points), counts)

\* curr_points after a candidate block: new_points is a copy
PointsAfterBlock(candidate, counts, points) == points

\* variant: the second candidate's child is appended first
PushBoth_swapped(left, children1, children2) == left \o children2 \o children1

\* the two stack.append calls of an iteration, in source order
PushBoth(left, children1, children2) == left \o children1 \o children2

\* stack.pop(): the entry taken
Top(s) == s[Len(s)]

\* variant: the top is read (stack[-1]) but left on the stack
Pop_peek(s) == s

\* stack.pop(): the stack left
Pop(s) == SubSeq(s, 1, Len(s) - 1)

\* variant: the points are returned in placement order
ReturnPoints_unsorted(points) == points

\* return sorted(curr_points)
ReturnPoints(points) == sorted(points)

\* variant: only the first occurrence of the width is taken out
RECURSIVE FilterWidth_once(_, _)
FilterWidth_once(lengths, w) ==
    IF lengths = <<>> THEN <<>>
    ELSE IF lengths[1] = w THEN Tail(lengths)
    ELSE <<lengths[1]>> \o FilterWidth_once(Tail(lengths), w)

\* variant: the width stays in the working list
FilterWidth_keep(lengths, w) == lengths

\* [d for d in fragment_lengths if d != width]
FilterWidth(lengths, w) == SelectSeq(lengths, LAMBDA d : d # w)

\* variant: the left endpoint is not placed
Starter_no_origin(w) == <<w>>

\* starter = [0, width]
Starter(w) == <<0, w>>

\* the verification utility
RECURSIVE PairsFrom(_, _, _)
PairsFrom(sp, i, j) ==
    IF i > Len(sp) THEN <<>>
    ELSE IF j > Len(sp) THEN PairsFrom(sp, i + 1, i + 2)
    ELSE <<Abs(sp[j] - sp[i])>> \o PairsFrom(sp, i, j + 1)

all_pairwise_distances(points) ==
    LET sorted_points == sorted(points) IN sorted(PairsFrom(sorted_points, 1, 2))

----------------------------------------------------------------------------
\* State machine

Inputs == UNION {[1..n -> 1..MaxVal] : n \in 0..MaxLen}

Init ==
    /\ fragment_lengths \in Inputs
    /\ pc = "call"
    /\ width = 0
    /\ stack = <<>>
    /\ curr_counts = EmptyDict
    /\ curr_points = <<>>
    /\ result = None
    /\ starter = <<>>
    /\ arg_dist_to_remove = <<>>
    /\ arg_dist_counts = EmptyDict
    /\ crd_ret = "idle"

\* variant: no emptiness test, the width of an empty input taken as 0
ReturnEmpty_seeded ==
    /\ pc = "call"
    /\ fragment_lengths = <<>>
    /\ width' = 0
    /\ stack' = << [counts |-> EmptyDict, points |-> <<0, 0>>] >>
    /\ pc' = "loop"
    /\ UNCHANGED <<fragment_lengths, curr_counts, curr_points, result, starter>>
    /\ UNCHANGED crdvars

\* partial_digest, `if not fragment_lengths: return None`
ReturnEmpty ==
    /\ pc = "call"
    /\ fragment_lengths = <<>>
    /\ result' = None
    /\ pc' = "done"
    /\ UNCHANGED <<fragment_lengths, width, stack, curr_counts, curr_points, starter>>
    /\ UNCHANGED crdvars

\* partial_digest lines 146-150 and the seeding of find_solution (80-84)
Seed ==
    /\ pc = "call"
    /\ fragment_lengths # <<>>
    /\ LET w == MaxOfSeq(fragment_lengths) IN
       /\ width' = w
       /\ starter' = Starter(w)
       /\ stack' = << [counts |-> create_distance_counts(FilterWidth(fragment_lengths, w)),
                       points |-> Starter(w)] >>
    /\ pc' = "loop"
    /\ UNCHANGED <<fragment_lengths, curr_counts, curr_points, result>>
    /\ UNCHANGED crdvars

\* an iteration that pops an entry whose counts sum to zero
Accept ==
    /\ pc = "loop"
    /\ stack # <<>>
    /\ SumValues(Top(stack).counts) = 0
    /\ curr_counts' = Top(stack).counts
    /\ curr_points' = Top(stack).points
    /\ stack' = Pop(stack)
    /\ result' = Some(ReturnPoints(Top(stack).points))
    /\ pc' = "done"
    /\ UNCHANGED <<fragment_lengths, width, starter>>
    /\ UNCHANGED crdvars

\* an iteration that pops an entry and processes both candidates
Branch ==
    /\ pc = "loop"
    /\ stack # <<>>
    /\ SumValues(Top(stack).counts) # 0
    /\ LET cc == Top(stack).counts
           cp == Top(stack).points
           max_dist == MaxKey(cc)
           candidate1 == Candidate1(max_dist, width)
           candidate2 == Candidate2(max_dist, width)
           \* the popped entry as the first candidate block leaves it
           cc1 == CountsAfterBlock(candidate1, cc, cp)
           cp1 == PointsAfterBlock(candidate1, cc, cp)
       IN /\ curr_counts' = CountsAfterBlock(candidate2, cc1, cp1)
          /\ curr_points' = PointsAfterBlock(candidate2, cc1, cp1)
          /\ stack' = PushBoth(Pop(stack),
                               ProcessCandidate(candidate1, cc, cp),
                               ProcessCandidate(candidate2, cc1, cp1))
    /\ UNCHANGED <<fragment_lengths, pc, width, result, starter>>
    /\ UNCHANGED crdvars

\* `while stack` fails: return None
Exhausted ==
    /\ pc = "loop"
    /\ stack = <<>>
    /\ result' = None
    /\ pc' = "done"
    /\ UNCHANGED <<fragment_lengths, width, stack, curr_counts, curr_points, starter>>
    /\ UNCHANGED crdvars

Next == ReturnEmpty \/ Seed \/ Accept \/ Branch \/ Exhausted

Spec == Init /\ [][Next]_vars

\* the loop runs to completion: nothing suspends or blocks it
FairSpec == Spec /\ WF_vars(Next)

----------------------------------------------------------------------------
\* Direct calls of can_remove_distances, on arguments of any shape

\* Largest value in a batch or key of a dict handed to the direct call.
CrdMaxVal == 2
\* Largest length of a batch handed to the direct call.
MaxBatch == 3
\* Largest count in a dict handed to the direct call.
MaxCount == 2

CrdBatches == UNION {[1..n -> 0..CrdMaxVal] : n \in 0..MaxBatch}

CrdDicts == UNION {[S -> 0..MaxCount] : S \in SUBSET (0..CrdMaxVal)}

CrdInit ==
    /\ fragment_lengths = <<>>
    /\ pc = "call"
    /\ width = 0
    /\ stack = <<>>
    /\ curr_counts = EmptyDict
    /\ curr_points = <<>>
    /\ result = None
    /\ starter = <<>>
    /\ arg_dist_to_remove \in CrdBatches
    /\ arg_dist_counts \in CrdDicts
    /\ crd_ret = "pending"

\* can_remove_distances(dist_to_remove, dist_counts), from call to return
CallCanRemove ==
    /\ crd_ret = "pending"
    /\ crd_ret' = IF can_remove_distances(arg_dist_to_remove, arg_dist_counts)
                  THEN "True" ELSE "False"
    /\ arg_dist_counts' = CountsAfterCanRemove(arg_dist_to_remove, arg_dist_counts)
    /\ UNCHANGED arg_dist_to_remove
    /\ UNCHANGED runvars

CrdNext == CallCanRemove

CrdSpec == CrdInit /\ [][CrdNext]_vars

----------------------------------------------------------------------------
\* Vocabulary of the properties, independent of the helpers above

\* number of occurrences of v in the list s
Occurrences(s, v) == Cardinality({i \in DOMAIN s : s[i] = v})

\* count of v in the mapping M, 0 when v is not a key
CountIn(M, v) == IF v \in DOMAIN M THEN M[v] ELSE 0

IsAscending(s) == \A i \in 1..(Len(s) - 1) : s[i] <= s[i + 1]

NoRepeat(s) == \A i, j \in DOMAIN s : i # j => s[i] # s[j]

\* some list holding exactly the elements of the finite set S
RECURSIVE ListOf(_)
ListOf(S) ==
    IF S = {} THEN <<>>
    ELSE LET x == CHOOSE y \in S : TRUE IN <<x>> \o ListOf(S \ {x})

\* the sets of distinct integers with smallest element 0 that fit the bounds
PointSets == {{0} \cup S : S \in SUBSET (1..MaxVal)}

\* the multiset of pairwise distances of the point set P, as a sorted list
DistancesOf(P) == all_pairwise_distances(ListOf(P))

\* the input is the distance multiset of some set of distinct points
Realisable == \E P \in PointSets : DistancesOf(P) = sorted(fragment_lengths)

Returned == pc = "done" /\ ~result.none

\* the mapping batch can be taken out of, value by value
BagRemovable(batch, M) ==
    \A v \in Range(batch) : Occurrences(batch, v) <= CountIn(M, v)

\* M with the batch taken out, keys of count zero dropped
BagMinus(M, batch) ==
    [k \in {j \in DOMAIN M : M[j] - Occurrences(batch, j) > 0} |->
        M[k] - Occurrences(batch, k)]

\* the input as a mapping, one occurrence of the value w taken out
InputMinusOne(w) ==
    LET n(v) == Occurrences(fragment_lengths, v) - (IF v = w THEN 1 ELSE 0)
    IN [k \in {v \in Range(fragment_lengths) : n(v) > 0} |-> n(k)]

----------------------------------------------------------------------------
\* C1. Whenever partial_digest returns a point list, the sorted pairwise
\* distances of that list are the sorted input, value for value and with the
\* same multiplicities.
C1_VerificationReproducesInput ==
    Returned =>
        all_pairwise_distances(result.points) = sorted(fragment_lengths)

\* C2. Round trip: when the input is the pairwise-distance multiset of a set P
\* of at least two distinct integers with smallest element 0, partial_digest
\* returns a point list (never None) whose pairwise distances are those of P.
C2_RoundTrip ==
    \A P \in PointSets :
        (/\ pc = "done"
         /\ Cardinality(P) >= 2
         /\ sorted(fragment_lengths) = DistancesOf(P))
        => /\ ~result.none
           /\ all_pairwise_distances(result.points) = DistancesOf(P)

\* a four-point instance has been solved
C2_Witness ==
    /\ Returned
    /\ Len(fragment_lengths) = 6
    /\ \E P \in PointSets : /\ Cardinality(P) = 4
                            /\ sorted(fragment_lengths) = DistancesOf(P)
    /\ Len(result.points) = 4

\* C3. Unsatisfiability detection: an input that is not the pairwise-distance
\* multiset of any set of distinct points makes partial_digest return None.
C3_UnsatisfiableYieldsNone ==
    (pc = "done" /\ ~Realisable) => result.none

\* C4. The search terminates, and it ends either Accepted (the entry popped
\* last has an empty multiset and its sorted points are the result) or
\* Exhausted (None with an empty frontier), never both.
C4_Accepted ==
    /\ ~result.none
    /\ curr_counts = EmptyDict
    /\ Len(curr_points) >= 2
    /\ result.points = sorted(curr_points)

C4_Exhausted == result.none /\ stack = <<>>

C4_TerminatesInOneOutcome ==
    /\ <>(pc = "done")
    /\ [](pc = "done" => (C4_Accepted /\ ~C4_Exhausted)
                            \/ (C4_Exhausted /\ ~C4_Accepted))

\* a search that explored branches and then ran out of frontier
C4_Witness ==
    /\ pc = "done"
    /\ C4_Exhausted
    /\ Len(curr_points) >= 3

\* C5. Every returned solution is ascending, starts with 0 and ends with the
\* width max(input).
C5_SortedWithEndpoints ==
    Returned =>
        /\ IsAscending(result.points)
        /\ result.points[1] = 0
        /\ result.points[Len(result.points)] = MaxOfSeq(fragment_lengths)

\* a solution whose points were placed out of order
C5_Witness ==
    /\ Returned
    /\ Len(result.points) >= 3
    /\ curr_points # result.points

\* C6. No frontier entry holds a repeated point, every frontier entry holds 0
\* and the width, and a returned solution has pairwise distinct positions.
C6_NoDuplicatePoints ==
    /\ \A i \in DOMAIN stack :
          /\ NoRepeat(stack[i].points)
          /\ 0 \in Range(stack[i].points)
          /\ width \in Range(stack[i].points)
    /\ Returned => NoRepeat(result.points)

\* two derived entries wait on the frontier
C6_Witness ==
    /\ Len(stack) >= 2
    /\ \A i \in DOMAIN stack : Len(stack[i].points) >= 3

\* C7. partial_digest([d]) is [0, d] for every positive d, and
\* partial_digest([2, 2, 4]) is [0, 2, 4], whose distances are [2, 2, 4].
C7_DegenerateInstances ==
    pc = "done" =>
        /\ Len(fragment_lengths) = 1
              => result = Some(<<0, fragment_lengths[1]>>)
        /\ fragment_lengths = <<2, 2, 4>>
              => /\ result = Some(<<0, 2, 4>>)
                 /\ all_pairwise_distances(result.points) = <<2, 2, 4>>

C7_Witness ==
    /\ pc = "done"
    /\ fragment_lengths = <<2, 2, 4>>
    /\ ~result.none

\* C8. On the empty input the call is over after its first step, with None,
\* no width derived, no frontier seeded and no entry explored.
C8_EmptyInputImmediateNone ==
    (fragment_lengths = <<>> /\ pc # "call") =>
        /\ pc = "done"
        /\ result.none
        /\ width = 0
        /\ stack = <<>>
        /\ curr_points = <<>>
        /\ curr_counts = EmptyDict

C8_Witness == fragment_lengths = <<>> /\ pc = "done"

\* C9. Right after seeding, the frontier holds exactly one entry: the input
\* multiset with ONE occurrence of the width removed, and the points {0, W}.
C9_SeedRemovesWidthOnce ==
    (pc = "loop" /\ curr_points = <<>>) =>
        /\ Len(stack) = 1
        /\ Len(stack[1].points) = 2
        /\ Range(stack[1].points) = {0, width}
        /\ width = MaxOfSeq(fragment_lengths)
        /\ stack[1].counts = InputMinusOne(width)

\* C10. Step rule: popping an entry (M, P) with non-empty M replaces it by the
\* children of c1 = max(M) and c2 = W - max(M), in that order; a candidate c
\* has a child iff {|p - c| : p in P} fits into M and c is not in P, and the
\* child is (M minus the batch, P plus c).  Nothing else is pushed.
C10_Batch(c, P) == [i \in DOMAIN P |-> Abs(P[i] - c)]

C10_Children(c, M, P) ==
    IF BagRemovable(C10_Batch(c, P), M) /\ c \notin Range(P)
    THEN << [counts |-> BagMinus(M, C10_Batch(c, P)),
             points |-> Range(P) \cup {c}] >>
    ELSE <<>>

C10_StepPushes ==
    (pc = "loop" /\ stack # <<>> /\ Top(stack).counts # EmptyDict) =>
        LET M == Top(stack).counts
            P == Top(stack).points
            m == CHOOSE k \in DOMAIN M : \A j \in DOMAIN M : j <= k
            expected == C10_Children(m, M, P) \o C10_Children(width - m, M, P)
            below == Len(stack) - 1
        IN /\ Len(stack') = below + Len(expected)
           /\ Len(stack') <= below + 2
           /\ SubSeq(stack', 1, below) = SubSeq(stack, 1, below)
           /\ \A i \in DOMAIN expected :
                 /\ stack'[below + i].counts = expected[i].counts
                 /\ Range(stack'[below + i].points) = expected[i].points
                 /\ Len(stack'[below + i].points) = Len(P) + 1

C10_StepRule == [][C10_StepPushes]_vars

\* a step pushed two different children of the entry it popped
C10_Witness ==
    /\ pc = "loop"
    /\ curr_counts # EmptyDict
    /\ Len(stack) >= 2
    /\ Len(Top(stack).points) = Len(curr_points) + 1
    /\ Len(stack[Len(stack) - 1].points) = Len(curr_points) + 1
    /\ Top(stack).points # stack[Len(stack) - 1].points

\* C11. Monotonic shrinkage: every child pushed by a step has a count total
\* equal to the parent's total minus the number of the parent's points, and one
\* more point than the parent; a returned solution was popped with total zero.
RECURSIVE C11_TotalOver(_, _)
C11_TotalOver(M, keys) ==
    IF keys = {} THEN 0
    ELSE LET k == CHOOSE x \in keys : \A y \in keys : x <= y
         IN M[k] + C11_TotalOver(M, keys \ {k})

C11_Total(M) == C11_TotalOver(M, DOMAIN M)

C11_StepShrinks ==
    /\ (pc = "loop" /\ stack # <<>> /\ Top(stack).counts # EmptyDict) =>
          \A i \in Len(stack)..Len(stack') :
              /\ C11_Total(stack'[i].counts)
                    = C11_Total(Top(stack).counts) - Len(Top(stack).points)
              /\ Len(stack'[i].points) = Len(Top(stack).points) + 1
    /\ (pc' = "done" /\ ~result'.none) => C11_Total(curr_counts') = 0

C11_MonotonicShrinkage == [][C11_StepShrinks]_vars

\* a child of a three-point parent waits on the frontier
C11_Witness ==
    /\ pc = "loop"
    /\ Len(curr_points) >= 3
    /\ stack # <<>>
    /\ Len(Top(stack).points) = Len(curr_points) + 1
    /\ C11_Total(Top(stack).counts) = C11_Total(curr_counts) - Len(curr_points)

\* C12. Every count stored in a frontier entry is strictly positive: no key
\* with count zero or below is ever stored.
C12_CountsPositive ==
    \A i \in DOMAIN stack :
        \A k \in DOMAIN stack[i].counts : stack[i].counts[k] > 0

\* a child from which a key of its parent has been deleted
C12_Witness ==
    /\ pc = "loop"
    /\ stack # <<>>
    /\ Len(Top(stack).points) = Len(curr_points) + 1
    /\ \E k \in DOMAIN curr_counts : k \notin DOMAIN Top(stack).counts
    /\ Top(stack).counts # EmptyDict

\* C13. Removal is always guarded: whenever the guard of a candidate block
\* passes, the decrement loop that follows on the same batch and multiset
\* only decrements keys that are present and never takes a count below zero,
\* not even before the zero-count filter; and every child pushed comes from a
\* batch that fits into the parent's multiset.
C13_DecrementInBounds(batch, M) ==
    \A n \in 1..Len(batch) :
        LET before == DecrementLoop(SubSeq(batch, 1, n - 1), M)
        IN /\ batch[n] \in DOMAIN before
           /\ before[batch[n]] - 1 >= 0

C13_StepGuarded ==
    (pc = "loop" /\ stack # <<>> /\ Top(stack).counts # EmptyDict) =>
        LET M == Top(stack).counts
            P == Top(stack).points
        IN /\ \A c \in {Candidate1(MaxKey(M), width), Candidate2(MaxKey(M), width)} :
                 can_remove_distances(calculate_distances(c, P), M)
                     => C13_DecrementInBounds(calculate_distances(c, P), M)
           /\ \A i \in Len(stack)..Len(stack') :
                 LET c == stack'[i].points[Len(stack'[i].points)]
                 IN BagRemovable([j \in DOMAIN P |-> Abs(P[j] - c)], M)

C13_RemovalGuarded == [][C13_StepGuarded]_vars

\* a child whose batch held the same distance twice
C13_Witness ==
    /\ pc = "loop"
    /\ stack # <<>>
    /\ Len(Top(stack).points) = Len(curr_points) + 1
    /\ LET c == Top(stack).points[Len(Top(stack).points)]
       IN \E i, j \in DOMAIN curr_points :
             i # j /\ Abs(curr_points[i] - c) = Abs(curr_points[j] - c)

\* C14. can_remove_distances(batch, M) returns true exactly when every value
\* occurs in batch at most as often as M counts it, repeats inside the batch
\* counted; and the call leaves M as it was.
C14_CallAnswers ==
    crd_ret = "pending" =>
        /\ crd_ret' \in {"True", "False"}
        /\ crd_ret' = "True"
              <=> \A v \in 0..(CrdMaxVal + 1) :
                     Occurrences(arg_dist_to_remove, v) <= CountIn(arg_dist_counts, v)
        /\ arg_dist_counts' = arg_dist_counts
        /\ arg_dist_to_remove' = arg_dist_to_remove

C14_CanRemoveIsContainment == [][C14_CallAnswers]_vars

\* a refusal caused only by a repeat inside the batch
C14_Witness ==
    /\ crd_ret = "False"
    /\ \A i \in DOMAIN arg_dist_to_remove :
          CountIn(arg_dist_counts, arg_dist_to_remove[i]) >= 1
    /\ \E v \in Range(arg_dist_to_remove) :
          Occurrences(arg_dist_to_remove, v) > CountIn(arg_dist_counts, v)

\* C15. Visitation order: a step takes the entry pushed last and leaves every
\* entry below it in place; when it pushes two children, the child of
\* c1 = maxDist lies below the child of c2 = W - maxDist; and every entry that
\* lies above an entry E on the frontier extends the c2 sibling of E.  So the
\* c2 child and its whole subtree are popped before the c1 child is.
C15_LastPoint(entry) == entry.points[Len(entry.points)]

C15_AboveIsMirrorSubtree(st, w) ==
    \A i, j \in DOMAIN st :
        i < j =>
            LET L == Len(st[i].points)
            IN /\ Len(st[j].points) >= L
               /\ SubSeq(st[j].points, 1, L - 1) = SubSeq(st[i].points, 1, L - 1)
               /\ st[j].points[L] = w - st[i].points[L]

C15_StepOrder ==
    (pc = "loop" /\ stack # <<>>) =>
        LET below == Len(stack) - 1
        IN /\ Len(stack') >= below
           /\ SubSeq(stack', 1, below) = SubSeq(stack, 1, below)
           /\ \A i \in (below + 1)..Len(stack') :
                 SubSeq(stack'[i].points, 1, Len(Top(stack).points))
                     = Top(stack).points
           /\ Len(stack') = below + 2 =>
                 LET m == CHOOSE k \in DOMAIN Top(stack).counts :
                              \A j \in DOMAIN Top(stack).counts : j <= k
                 IN /\ C15_LastPoint(stack'[below + 1]) = m
                    /\ C15_LastPoint(stack'[below + 2]) = width - m
           /\ C15_AboveIsMirrorSubtree(stack', width')

C15_VisitationOrder == [][C15_StepOrder]_vars

\* a c1 child waits below two entries of its c2 sibling's subtree
C15_Witness ==
    /\ pc = "loop"
    /\ Len(stack) >= 3
    /\ Len(Top(stack).points) > Len(stack[1].points)
    /\ C15_LastPoint(stack[1]) # width - C15_LastPoint(stack[1])

\* C16. Copy-on-branch: a step leaves every other frontier entry as it was;
\* after both candidate blocks the popped entry still has the multiset and the
\* points it was popped with, so the second candidate is judged against the
\* parent's own state; and the list handed in as `points` is never changed.
C16_Accepts(c, M, P) == BagRemovable(C10_Batch(c, P), M) /\ c \notin Range(P)

C16_StepFrame ==
    /\ (pc = "loop" /\ stack # <<>>) =>
          LET M == Top(stack).counts
              P == Top(stack).points
              below == Len(stack) - 1
          IN /\ SubSeq(stack', 1, below) = SubSeq(stack, 1, below)
             /\ curr_counts' = M
             /\ curr_points' = P
             /\ M # EmptyDict =>
                   LET m == CHOOSE k \in DOMAIN M : \A j \in DOMAIN M : j <= k
                   IN (C16_Accepts(width - m, M, P)
                         <=> /\ Len(stack') > below
                             /\ Top(stack').points = Append(P, width - m)
                             /\ Top(stack').counts = BagMinus(M, C10_Batch(width - m, P)))
    /\ pc # "call" => starter' = starter /\ starter = <<0, width>>

C16_CopyOnBranch == [][C16_StepFrame]_vars

\* both candidates of a derived entry produced a child, the first one changing
\* the multiset
C16_Witness ==
    /\ pc = "loop"
    /\ Len(curr_points) >= 3
    /\ curr_points # starter
    /\ Len(stack) >= 2
    /\ Len(Top(stack).points) = Len(curr_points) + 1
    /\ Len(stack[Len(stack) - 1].points) = Len(curr_points) + 1
    /\ stack[Len(stack) - 1].counts # curr_counts

\* C17. The width max(input) is never a key of the working multiset: it is in
\* no frontier entry's multiset, from the seed onward.
C17_WidthNeverStored ==
    \A i \in DOMAIN stack :
        /\ width = MaxOfSeq(fragment_lengths)
        /\ width \notin DOMAIN stack[i].counts

\* a frontier seeded from an input that holds the width more than once
C17_Witness ==
    /\ pc = "loop"
    /\ stack # <<>>
    /\ Occurrences(fragment_lengths, width) >= 2
    /\ Top(stack).counts # EmptyDict

\* C18. Conservation: for every frontier entry (M, P), M together with the
\* pairwise distances of P, less the one distance W between the endpoints,
\* is the multiset the search started with: the input without the width.
C18_Conservation ==
    \A i \in DOMAIN stack :
        \A v \in 0..MaxVal :
            CountIn(stack[i].counts, v)
              + Occurrences(all_pairwise_distances(stack[i].points), v)
              - (IF v = width THEN 1 ELSE 0)
            = (IF v = width THEN 0 ELSE Occurrences(fragment_lengths, v))

\* a derived entry with distances still to explain
C18_Witness ==
    /\ pc = "loop"
    /\ stack # <<>>
    /\ Len(Top(stack).points) >= 3
    /\ Top(stack).counts # EmptyDict

\* C19. Both candidates of a step lie strictly between 0 and W, and a
\* candidate whose batch passes can_remove_distances is never a point already
\* placed, so the membership test prunes nothing the guard let through.
C19_CandidatesInside ==
    (pc = "loop" /\ stack # <<>> /\ Top(stack).counts # EmptyDict) =>
        LET M == Top(stack).counts
            P == Top(stack).points
        IN \A c \in {Candidate1(MaxKey(M), width), Candidate2(MaxKey(M), width)} :
              /\ 0 < c
              /\ c < width
              /\ can_remove_distances(calculate_distances(c, P), M)
                    => c \notin Range(P)

\* a step whose candidate is a point already placed
C19_Witness ==
    /\ pc = "loop"
    /\ stack # <<>>
    /\ Top(stack).counts # EmptyDict
    /\ MaxKey(Top(stack).counts) \in Range(Top(stack).points)

----------------------------------------------------------------------------
\* The call as a function of its argument

\* the `while stack` loop of find_solution, run to its return
RECURSIVE find_solution_loop(_, _)
find_solution_loop(st, w) ==
    IF st = <<>> THEN None
    ELSE LET cc == Top(st).counts
             cp == Top(st).points
         IN IF SumValues(cc) = 0 THEN Some(ReturnPoints(cp))
            ELSE LET max_dist == MaxKey(cc)
                     candidate1 == Candidate1(max_dist, w)
                     candidate2 == Candidate2(max_dist, w)
                     cc1 == CountsAfterBlock(candidate1, cc, cp)
                     cp1 == PointsAfterBlock(candidate1, cc, cp)
                 IN find_solution_loop(
                        PushBoth(Pop(st),
                                 ProcessCandidate(candidate1, cc, cp),
                                 ProcessCandidate(candidate2, cc1, cp1)), w)

find_solution(w, distances, pts) ==
    find_solution_loop(<< [counts |-> create_distance_counts(distances),
                           points |-> pts] >>, w)

partial_digest(lengths) ==
    IF lengths = <<>> THEN None
    ELSE LET w == MaxOfSeq(lengths)
         IN find_solution(w, FilterWidth(lengths, w), Starter(w))

\* C20. Determinism in the multiset: the outcome of a run on any ordering of
\* the input is the outcome of the call on the ascending ordering of the same
\* values, so any two permutations of an input give the same point list or
\* both give None.
C20_OrderIndependent ==
    pc = "done" => result = partial_digest(sorted(fragment_lengths))

\* a solved input that was not given in ascending order
C20_Witness ==
    /\ Returned
    /\ Len(result.points) >= 3
    /\ fragment_lengths # sorted(fragment_lengths)
    /\ fragment_lengths[1] # width

====
